---- MODULE Spec2Model ----
(***************************************************************************)
(* qasetool: syncing a tree of local .feature files with the suite/case    *)
(* tree of a remote Qase project.  The model follows src/qasetool/tree.py  *)
(* and src/qasetool/__init__.py: the two tree builders, diff_trees,        *)
(* flat_diff_trees and Tree.push with its calls to the write service.      *)
(*                                                                         *)
(* Strings are modelled by what the code does with them.  A path is a      *)
(* sequence of segments, a segment (a file or directory name, a suite      *)
(* title) is a sequence of tokens: <<"a", ".feature">> is "a.feature",     *)
(* <<"a", ".v">> is "a.v".  Every token after the first starts with a dot. *)
(* A case name is a segment too.  A tree is an arena: nodes[i] is node i,  *)
(* parent and children hold arena indices, index 0 stands for None.        *)
(***************************************************************************)
EXTENDS Integers, Sequences, FiniteSets, TLC

(* ------------------------------ bounds -------------------------------- *)
\* feature files on disk
MaxFiles == 2
\* suites and cases of the remote project besides the root suite
MaxRemote == 3
\* failing answers of the write service during one push
MaxFaults == 1

(* ------------------------- program constants -------------------------- *)
\* args.root_suite_id, the suite everything is synced to
RootSuiteId == 1
\* getattr(node, 'pk', None): the node has no pk attribute (yet)
NoPk == 0
\* a parent of None
NoNode == 0
\* config.QASE_CUSTOM_FIELD_DEFAULTS
QASE_CUSTOM_FIELD_DEFAULTS == (1 :> "default")

(* ------------------------------ inputs -------------------------------- *)
SegA == <<"a">>
SegB == <<"b">>
SegAV == <<"a", ".v">>
SegAF == <<"a", ".feature">>
SegBF == <<"b", ".feature">>
\* the title "." of a remote suite
SegDot == <<".">>
NameX == <<"x">>

\* relative paths of the feature files find_feature_files may yield
FeaturePaths == { <<SegAF>>, <<SegA, SegBF>>, <<SegAV, SegBF>> }
\* the scenario names of one feature file, in file order
ScenarioLists == { <<>>, <<NameX>>, <<NameX, NameX>> }
\* titles of remote suites and cases
SuiteTitles == { SegA, SegB, SegAV }
\* titles of remote suites, one with the suffix of a feature file, one "."
SuffixTitles == { SegA, SegAF, SegDot }
CaseTitles == { NameX }
\* custom_fields of a remote case as the service returns them
CustomFieldLists == { <<[id |-> 1, value |-> "remote"]>> }

(* ------------------------------ strings ------------------------------- *)
\* str(path).replace('.feature', '')
StripFeature(path) ==
    [i \in 1..Len(path) |-> SelectSeq(path[i], LAMBDA t : t # ".feature")]

\* Path(...).stem: the last component without its last suffix
Stem(path) ==
    LET seg == path[Len(path)]
    IN  IF Len(seg) > 1 THEN SubSeq(seg, 1, Len(seg) - 1) ELSE seg

\* the key string f'{base}' of a suite, f'{base}::{name}' of a case
KeyOf(base, entity, name) ==
    [base |-> base, case |-> entity = "case",
     nm |-> IF entity = "case" THEN name ELSE <<>>]

\* path / name of pathlib: a "." component is dropped
PathJoin(path, name) == IF name = SegDot THEN path ELSE Append(path, name)

\* str(path) looked up in the key index: a path read as a suite key
PathAsKey(path) == KeyOf(path, "suite", <<>>)

(* ----------------------------- strip_title ---------------------------- *)
\* A title is a sequence of characters.  The characters that matter to
\* strip_title: the two quote symbols, the angle brackets of a <variable>
\* reference, a letter and the blank.
Chars == {"'", "\"", "<", ">", "a", " "}

\* what leaves _strip_title when it reads string[0] of an empty string
IndexError == <<"IndexError">>

\* string.count(symbol)
Count(string, symbol) == Cardinality({i \in 1..Len(string) : string[i] = symbol})

\* string[a:b], positions counted from 0
Slice(string, a, b) == SubSeq(string, a + 1, b)

\* string.find(pattern, from): the first position of pattern, -1 without one
Find(string, pattern, from) ==
    LET at == {i \in from..(Len(string) - Len(pattern)) :
                  SubSeq(string, i + 1, i + Len(pattern)) = pattern}
    IN  IF at = {} THEN -1 ELSE CHOOSE i \in at : \A j \in at : i <= j

\* string.rfind(pattern, lo, hi): the last position of pattern in string[lo:hi]
RFind(string, pattern, lo, hi) ==
    LET at == {i \in lo..(hi - Len(pattern)) :
                  SubSeq(string, i + 1, i + Len(pattern)) = pattern}
    IN  IF at = {} THEN -1 ELSE CHOOSE i \in at : \A j \in at : i >= j

is_balanced(string, symbol) == Count(string, symbol) % 2 = 0

_get_var_boundary_positions(string, symbol) ==
    LET var_end == RFind(string, <<">", symbol>>, 0, Len(string))
    IN  [var_start |-> Find(string, <<symbol, "<">>, 0),
         var_end |-> IF var_end # -1 THEN var_end + 1 ELSE var_end]

\* string is not empty here: _strip_title has read its first character
_handle_variables(string, symbol, balanced) ==
    LET start == 0
        end == Len(string) - 1
        symbol_start == Find(string, <<symbol>>, 0)
        symbol_end == RFind(string, <<symbol>>, 0, Len(string))
        var == _get_var_boundary_positions(string, symbol)
    IN  IF var.var_start = symbol_start /\ var.var_end = symbol_end
        THEN string
        ELSE IF /\ var.var_start = symbol_start /\ symbol_start = start
                /\ string[end + 1] = symbol
        THEN Slice(string, 0, end)
        ELSE IF /\ var.var_end = symbol_end /\ symbol_end = end
                /\ string[start + 1] = symbol
        THEN Slice(string, start + 1, Len(string))
        ELSE IF balanced /\ string[start + 1] = symbol /\ string[end + 1] = symbol
        THEN Slice(string, start + 1, end)
        ELSE string

RECURSIVE strip_blanks(_)
\* string.strip(' ')
strip_blanks(string) ==
    IF string = <<>> THEN string
    ELSE IF Head(string) = " " THEN strip_blanks(Tail(string))
    ELSE IF string[Len(string)] = " "
    THEN strip_blanks(SubSeq(string, 1, Len(string) - 1))
    ELSE string

_strip_title(string, symbol) ==
    IF string = <<>> \/ string = IndexError THEN IndexError
    ELSE IF ~(string[1] = symbol \/ string[Len(string)] = symbol) THEN string
    ELSE
    LET start == 0
        handled == _handle_variables(string, symbol, is_balanced(string, symbol))
        end == Len(handled) - 1
        balanced == is_balanced(handled, symbol)
        count == Count(handled, symbol)
        left_distance == Find(handled, <<symbol>>, start + 1) - start
        right_distance == end - RFind(handled, <<symbol>>, start, end)
        var == _get_var_boundary_positions(handled, symbol)
        done ==
            IF ~balanced /\ count = 1
            THEN IF handled[start + 1] = symbol
                 THEN Slice(handled, start + 1, Len(handled))
                 ELSE IF handled[end + 1] = symbol
                 THEN Slice(handled, 0, end)
                 ELSE handled
            ELSE IF ~balanced /\ count = 3
            THEN IF left_distance > right_distance
                 THEN Slice(handled, start + 1, Len(handled))
                 ELSE Slice(handled, 0, end)
            ELSE IF ~balanced /\ count > 3
            THEN IF /\ var.var_start # start /\ var.var_end # end
                    /\ handled[start + 1] = symbol /\ handled[end + 1] = symbol
                 THEN Slice(handled, start + 1, end)
                 ELSE handled
            ELSE handled
    IN  strip_blanks(done)

RECURSIVE collapse(_)
\* " ".join(string.split()): no blank at either end, one blank between words
collapse(string) ==
    IF string = <<>> THEN string
    ELSE IF Head(string) = " " THEN collapse(Tail(string))
    ELSE LET rest == collapse(Tail(string))
         IN  IF Len(string) > 1 /\ string[2] = " " /\ rest # <<>>
             THEN <<Head(string), " ">> \o rest
             ELSE <<Head(string)>> \o rest

RECURSIVE strip_each(_, _)
\* for symbol in symbols: string = _strip_title(string, symbol)
strip_each(string, syms) ==
    IF syms = <<>> THEN string
    ELSE strip_each(_strip_title(string, Head(syms)), Tail(syms))

strip_title(string, syms) ==
    LET out == strip_each(string, syms)
    IN  IF out = IndexError THEN IndexError ELSE collapse(out)

(* ------------------------------- nodes -------------------------------- *)
LocalCaseNode_set_key(filepath, entity, name) ==
    KeyOf(StripFeature(filepath), entity, name)

LocalCaseNode(filepath, name, entity, parent) ==
    LET isRoot == filepath = <<>>
        ent == IF isRoot THEN "repository" ELSE entity
        nm == IF isRoot THEN <<"Repository">>
              ELSE IF entity = "suite" THEN Stem(filepath)
              ELSE name
    IN  [cls |-> "local", entity |-> ent, filepath |-> filepath, name |-> nm,
         action |-> "None", pk |-> NoPk, parent |-> parent,
         children |-> <<>>, custom_fields |-> <<>>, custom_field |-> <<>>,
         key |-> LocalCaseNode_set_key(filepath, ent, nm)]

RECURSIVE custom_fields_setter(_, _)
\* RemoteCaseNode.custom_fields setter: defaults overlaid with the listed values
custom_fields_setter(x, acc) ==
    IF x = <<>> THEN acc
    ELSE custom_fields_setter(Tail(x), (Head(x).id :> Head(x).value) @@ acc)

\* parent is the parent's index (NoNode for None), parentPath its filepath
RemoteCaseNode_set_remote_filepath(entity, parent, parentPath, name) ==
    IF entity = "repository" \/ parent = NoNode THEN <<>>
    ELSE IF entity = "suite" THEN PathJoin(parentPath, name)
    ELSE parentPath

RemoteCaseNode_set_key(filepath, entity, name) == KeyOf(filepath, entity, name)

RemoteCaseNode(pk, entity, name, parent, parentPath, custom_fields) ==
    LET fp == RemoteCaseNode_set_remote_filepath(entity, parent, parentPath, name)
    IN  [cls |-> "remote", entity |-> entity, filepath |-> fp, name |-> name,
         action |-> "None", pk |-> pk, parent |-> parent,
         children |-> <<>>, custom_fields |-> custom_fields,
         custom_field |-> custom_fields_setter(custom_fields, QASE_CUSTOM_FIELD_DEFAULTS),
         key |-> RemoteCaseNode_set_key(fp, entity, name)]

(* ------------------------------- trees -------------------------------- *)
\* no tree (None)
NoTree == [nodes |-> <<>>, key_map |-> <<>>, id_map |-> <<>>]

\* Tree(root): the id index holds the root only when it has a pk attribute
Tree(root) ==
    [nodes |-> <<root>>,
     key_map |-> (root.key :> 1),
     id_map |-> IF root.cls = "remote" THEN (root.pk :> 1) ELSE <<>>]

get_node_by_key(tree, key) ==
    IF key \in DOMAIN tree.key_map THEN tree.key_map[key] ELSE NoNode

get_node_by_suite_id(tree, id) ==
    IF id \in DOMAIN tree.id_map THEN tree.id_map[id] ELSE NoNode

\* NodeMixin's parent setter on a new node: the node joins the arena and is
\* appended to its parent's children
Attach(tree, node) ==
    LET i == Len(tree.nodes) + 1
        linked == IF node.parent = NoNode THEN tree.nodes
                  ELSE [tree.nodes EXCEPT ![node.parent].children = Append(@, i)]
    IN  [tree EXCEPT !.nodes = Append(linked, node)]

\* node.parent = None on node i: it leaves its parent's children
Detach(nodes, i) ==
    LET p == nodes[i].parent
    IN  IF p = NoNode THEN nodes
        ELSE [nodes EXCEPT ![i].parent = NoNode,
                           ![p].children = SelectSeq(@, LAMBDA c : c # i)]

Remove(f, k) == [x \in (DOMAIN f) \ {k} |-> f[x]]

\* the elements of a sequence
Range(s) == {s[j] : j \in 1..Len(s)}

\* add_node with the slip of indexing the node under its path alone
add_node_by_path(tree, i) ==
    LET node == tree.nodes[i]
    IN  [tree EXCEPT !.key_map = (PathAsKey(node.filepath) :> i) @@ @,
                     !.id_map = IF node.pk # NoPk THEN (node.pk :> i) @@ @ ELSE @]

\* Tree.add_node on the node at index i
add_node(tree, i) ==
    LET node == tree.nodes[i]
    IN  [tree EXCEPT !.key_map = (node.key :> i) @@ @,
                     !.id_map = IF node.pk # NoPk THEN (node.pk :> i) @@ @ ELSE @]

add_local_suite(tree, parent, filepath) ==
    LET node == LocalCaseNode(filepath, <<>>, "suite", parent)
        t == Attach(tree, node)
    IN  [t EXCEPT !.key_map = (node.key :> Len(t.nodes)) @@ @]

add_remote_suite(tree, suite) ==
    LET parent == get_node_by_suite_id(tree, suite.parent_id)
        parentPath == IF parent = NoNode THEN <<>> ELSE tree.nodes[parent].filepath
        node == RemoteCaseNode(suite.id, "suite", suite.title, parent, parentPath, <<>>)
        t == Attach(tree, node)
    IN  [t EXCEPT !.id_map = (suite.id :> Len(t.nodes)) @@ @,
                  !.key_map = (node.key :> Len(t.nodes)) @@ @]

add_remote_case(tree, case) ==
    LET parent == get_node_by_suite_id(tree, case.suite_id)
        parentPath == IF parent = NoNode THEN <<>> ELSE tree.nodes[parent].filepath
        node == RemoteCaseNode(case.id, "case", case.title, parent, parentPath,
                               case.custom_fields)
        t == Attach(tree, node)
    IN  [t EXCEPT !.key_map = (node.key :> Len(t.nodes)) @@ @]

RECURSIVE PreOrder(_, _)
RECURSIVE PreOrderAll(_, _)
\* PreOrderIter(node i): the node, then each child's subtree, in child order
PreOrder(nodes, i) == <<i>> \o PreOrderAll(nodes, nodes[i].children)
PreOrderAll(nodes, cs) ==
    IF cs = <<>> THEN <<>>
    ELSE PreOrder(nodes, Head(cs)) \o PreOrderAll(nodes, Tail(cs))

RECURSIVE ChildrenOf(_, _)
ChildrenOf(nodes, level) ==
    IF level = <<>> THEN <<>>
    ELSE nodes[Head(level)].children \o ChildrenOf(nodes, Tail(level))

RECURSIVE LevelsFrom(_, _)
LevelsFrom(nodes, level) ==
    IF level = <<>> THEN <<>>
    ELSE <<level>> \o LevelsFrom(nodes, ChildrenOf(nodes, level))

\* [children for children in LevelOrderGroupIter(root)]
group_nodes_by_level(nodes, root) == LevelsFrom(nodes, <<root>>)

(* --------------------------- the local tree --------------------------- *)
RECURSIVE add_cases(_, _, _)
\* for case in gherkin_as_nodes(abs_filepath, node): tree.add_node(case).
\* The scenario names are non-empty and hold no quote or blank, so that
\* strip_title would leave them as they are (config.STRIP_TITLES or not).
add_cases(tree, parent, names) ==
    IF names = <<>> THEN tree
    ELSE LET node == LocalCaseNode(tree.nodes[parent].filepath, Head(names),
                                   "case", parent)
             t == Attach(tree, node)
         IN  add_cases(add_node(t, Len(t.nodes)), parent, Tail(names))

RECURSIVE branch_from(_, _, _, _)
\* the loop of build_local_case_tree_branch from the i-th prefix of
\* rel_filepath on: prev and current are the prefixes of length i-1 and i.
\* For the first prefix prev is None and str(prev) is 'None', the key of no
\* node here, so the parent is the root.
branch_from(tree, rel_filepath, scenarios, i) ==
    IF i > Len(rel_filepath) THEN tree
    ELSE LET current == SubSeq(rel_filepath, 1, i)
             prev == SubSeq(rel_filepath, 1, i - 1)
             node == get_node_by_key(tree, PathAsKey(current))
             byPrev == IF i = 1 THEN NoNode
                       ELSE get_node_by_key(tree, PathAsKey(prev))
             parent == IF byPrev # NoNode THEN byPrev ELSE 1
             t1 == add_local_suite(tree, parent, current)
             t2 == IF current = rel_filepath
                   THEN add_cases(t1, Len(t1.nodes), scenarios)
                   ELSE t1
         IN  IF node # NoNode
             THEN branch_from(tree, rel_filepath, scenarios, i + 1)
             ELSE branch_from(t2, rel_filepath, scenarios, i + 1)

build_local_case_tree_branch(tree, rel_filepath, scenarios) ==
    branch_from(tree, rel_filepath, scenarios, 1)

RECURSIVE build_local_from(_, _)
build_local_from(tree, fs) ==
    IF fs = <<>> THEN tree
    ELSE build_local_from(
             build_local_case_tree_branch(tree, Head(fs).path, Head(fs).scenarios),
             Tail(fs))

\* fs: what find_feature_files yields, each file with its scenario names
build_local_case_tree(fs) ==
    build_local_from(Tree(LocalCaseNode(<<>>, <<>>, "suite", NoNode)), fs)

(* ------------------------- the remote project ------------------------- *)
\* One page of a listing holds at most this many entities (limit=10)
PageLimit == 10

Min(a, b) == IF a < b THEN a ELSE b

RECURSIVE SortedIds(_)
SortedIds(ids) ==
    IF ids = {} THEN <<>>
    ELSE LET m == CHOOSE x \in ids : \A y \in ids : x <= y
         IN  <<m>> \o SortedIds(ids \ {m})

\* the service's listing of the suites, by identifier
SuiteListing(service) ==
    LET ids == SortedIds(DOMAIN service.suites)
    IN  [i \in 1..Len(ids) |->
            [id |-> ids[i], title |-> service.suites[ids[i]].title,
             parent_id |-> service.suites[ids[i]].parent_id]]

\* the service's listing of the cases of one suite, by identifier
CaseListing(service, suite_id) ==
    LET ids == SortedIds({c \in DOMAIN service.cases :
                             service.cases[c].suite_id = suite_id})
    IN  [i \in 1..Len(ids) |->
            [id |-> ids[i], title |-> service.cases[ids[i]].title,
             suite_id |-> suite_id,
             custom_fields |-> service.cases[ids[i]].custom_fields]]

RECURSIVE get_all_from(_, _)
\* the loop of get_all_suites / get_all_cases: pages until an empty one
get_all_from(listing, offset) ==
    LET page == SubSeq(listing, offset + 1, Min(offset + PageLimit, Len(listing)))
    IN  IF Len(page) = 0 THEN <<>>
        ELSE page \o get_all_from(listing, offset + PageLimit)

get_all_suites(service) == get_all_from(SuiteListing(service), 0)

get_all_cases(service, suite_id) == get_all_from(CaseListing(service, suite_id), 0)

RECURSIVE add_remote_cases(_, _)
add_remote_cases(tree, cases) ==
    IF cases = <<>> THEN tree
    ELSE add_remote_cases(add_remote_case(tree, Head(cases)), Tail(cases))

RECURSIVE build_remote_from(_, _, _, _)
\* the loop of build_remote_case_tree over the suites still to visit
build_remote_from(tree, suites, service, root_suite_id) ==
    IF suites = <<>> THEN tree
    ELSE LET suite == Head(suites)
             skip == /\ root_suite_id # NoPk
                     /\ \/ suite.parent_id = NoPk /\ suite.id # root_suite_id
                        \/ /\ suite.parent_id # NoPk
                           /\ \/ /\ tree # NoTree
                                 /\ get_node_by_suite_id(tree, suite.parent_id) = NoNode
                              \/ tree = NoTree
             t1 == IF suite.id = root_suite_id /\ tree = NoTree
                   THEN Tree(RemoteCaseNode(suite.id, "suite", suite.title,
                                            NoNode, <<>>, <<>>))
                   ELSE add_remote_suite(tree, suite)
             t2 == add_remote_cases(t1, get_all_cases(service, suite.id))
         IN  IF skip
             THEN build_remote_from(tree, Tail(suites), service, root_suite_id)
             ELSE build_remote_from(t2, Tail(suites), service, root_suite_id)

\* build_remote_case_tree when the service lists the suites as suite_listing
build_remote_case_tree_listed(suite_listing, service, root_suite_id) ==
    build_remote_from(
        IF root_suite_id # NoPk THEN NoTree
        ELSE Tree(RemoteCaseNode(NoPk, "repository", <<"Repository">>,
                                 NoNode, <<>>, <<>>)),
        get_all_from(suite_listing, 0), service, root_suite_id)

build_remote_case_tree(service, root_suite_id) ==
    build_remote_case_tree_listed(SuiteListing(service), service, root_suite_id)

(* ------------------------------ the diff ------------------------------ *)
\* the first loop of diff_trees on node i of the copy of the local tree:
\* a node the key index holds is matched against the remote key index
diff_node(merged, remote, i) ==
    LET node == merged.nodes[i]
        keys == {k \in DOMAIN merged.key_map : merged.key_map[k] = i}
        key == CHOOSE k \in keys : TRUE
        node_remote == remote.nodes[remote.key_map[key]]
    IN  IF keys = {} THEN node
        ELSE IF key \in DOMAIN remote.key_map
        THEN [node EXCEPT !.pk = node_remote.pk,
                          !.custom_fields = node_remote.custom_fields,
                          !.custom_field = node_remote.custom_field,
                          !.action = IF node.filepath = <<>> THEN "None"
                                     ELSE "Update"]
        ELSE [node EXCEPT !.custom_field = QASE_CUSTOM_FIELD_DEFAULTS,
                          !.action = "Create"]

\* the body of the second loop of diff_trees for the remote node r
diff_remote_node(merged, remote, r) ==
    LET node_remote == remote.nodes[r]
        node_merged_parent ==
            IF node_remote.parent = NoNode THEN NoNode
            ELSE get_node_by_key(merged, remote.nodes[node_remote.parent].key)
        node_merged == [node_remote EXCEPT !.children = <<>>,
                                           !.parent = node_merged_parent,
                                           !.action = "Delete"]
        t == Attach(merged, node_merged)
    IN  IF get_node_by_key(merged, node_remote.key) # NoNode THEN merged
        ELSE add_node(t, Len(t.nodes))

RECURSIVE diff_remote_from(_, _, _)
diff_remote_from(merged, remote, order) ==
    IF order = <<>> THEN merged
    ELSE diff_remote_from(diff_remote_node(merged, remote, Head(order)),
                          remote, Tail(order))

diff_trees(local, remote) ==
    LET merged == [local EXCEPT !.nodes =
                      [i \in 1..Len(local.nodes) |-> diff_node(local, remote, i)]]
    IN  diff_remote_from(merged, remote, PreOrder(remote.nodes, 1))

\* the operations of flat_diff_trees: each names a node of the local tree
\* (Update, Create) or of the remote tree (Delete) by its index
flat_diff_trees(local, remote) ==
    LET to_update == {[action |-> "Update", key |-> k, node |-> local.key_map[k],
                       pk |-> remote.nodes[remote.key_map[k]].pk] :
                         k \in {x \in DOMAIN local.key_map :
                                  /\ local.nodes[local.key_map[x]].filepath # <<>>
                                  /\ x \in DOMAIN remote.key_map}}
        to_create == {[action |-> "Create", key |-> k, node |-> local.key_map[k],
                       pk |-> NoPk] :
                         k \in {x \in DOMAIN local.key_map :
                                  /\ local.nodes[local.key_map[x]].filepath # <<>>
                                  /\ x \notin DOMAIN remote.key_map}}
        to_delete == {[action |-> "Delete", key |-> k, node |-> remote.key_map[k],
                       pk |-> remote.nodes[remote.key_map[k]].pk] :
                         k \in {x \in DOMAIN remote.key_map :
                                  /\ remote.nodes[remote.key_map[x]].filepath # <<>>
                                  /\ x \notin DOMAIN local.key_map}}
    IN  to_update \cup to_create \cup to_delete

(* --------------------------- the write service ------------------------ *)
\* the answers of the write service to one call: success, the
\* BadRequestException 'There are no changes', any other BadRequestException
Answers == {"ok", "no_changes", "error"}

\* a custom_field map {id: value} as the list the service returns for it
FieldList(custom_field) ==
    LET ids == SortedIds(DOMAIN custom_field)
    IN  [i \in 1..Len(ids) |-> [id |-> ids[i], value |-> custom_field[ids[i]]]]

\* the remote project as the service holds it after it applied a call
ServiceApply(service, call) ==
    IF call.resp # "ok" THEN service
    ELSE IF call.op = "create" /\ call.entity = "suite" THEN
        [service EXCEPT
            !.suites = (service.next_suite :>
                           [title |-> call.title, parent_id |-> call.parent_id]) @@ @,
            !.next_suite = @ + 1]
    ELSE IF call.op = "create" THEN
        [service EXCEPT
            !.cases = (service.next_case :>
                          [title |-> call.title, suite_id |-> call.parent_id,
                           custom_fields |-> FieldList(call.custom_field)]) @@ @,
            !.next_case = @ + 1]
    ELSE IF call.op = "update" /\ call.entity = "suite" THEN
        [service EXCEPT
            !.suites = IF call.pk \in DOMAIN @
                       THEN [@ EXCEPT ![call.pk] =
                                [title |-> call.title, parent_id |-> call.parent_id]]
                       ELSE @]
    ELSE IF call.op = "update" THEN
        [service EXCEPT
            !.cases = IF call.pk \in DOMAIN @
                      THEN [@ EXCEPT ![call.pk] =
                               [title |-> call.title, suite_id |-> call.parent_id,
                                custom_fields |-> FieldList(call.custom_field)]]
                      ELSE @]
    ELSE IF call.entity = "suite" THEN
        [service EXCEPT !.suites = Remove(@, call.pk)]
    ELSE
        [service EXCEPT !.cases = Remove(@, call.pk)]

\* the identifier of the entity the service returns for a call it applied
ServiceReturns(service, op, entity, pk) ==
    IF op = "create" /\ entity = "suite" THEN service.next_suite
    ELSE IF op = "create" THEN service.next_case
    ELSE pk

(* ------------------------------ the push ------------------------------ *)
\* Tree.delete_node on node i; err names the exception it raises, if any
delete_node(tree, i) ==
    LET node == tree.nodes[i]
        popped == [tree EXCEPT !.key_map = Remove(@, node.key)]
    IN  IF node.key \notin DOMAIN tree.key_map
        THEN [tree |-> tree, err |-> "KeyError"]
        ELSE IF node.pk \notin DOMAIN tree.id_map
        THEN [tree |-> popped, err |-> "KeyError"]
        ELSE [tree |-> [popped EXCEPT !.id_map = Remove(@, node.pk),
                                      !.nodes = Detach(@, i)],
              err |-> ""]

\* the state one call of perform_action leaves: the tree, the service, the
\* calls issued so far and the exception that leaves perform_action, if any
Outcome(tree, service, calls, err) ==
    [tree |-> tree, service |-> service, calls |-> calls, err |-> err]

\* CallFor with the slip of passing root_suite_id where node.parent.pk belongs
CallFor_root_as_parent(tree, service, i, op, resp) ==
    LET node == tree.nodes[i]
    IN  [op |-> op, entity |-> node.entity, node |-> i,
         pk |-> IF op = "create" THEN NoPk ELSE node.pk,
         title |-> IF op = "delete" THEN <<>> ELSE node.name,
         parent_id |-> IF op = "delete" THEN NoPk ELSE RootSuiteId,
         custom_field |-> IF op # "delete" /\ node.entity = "case"
                          THEN node.custom_field ELSE <<>>,
         resp |-> resp,
         ret |-> IF resp = "ok" THEN ServiceReturns(service, op, node.entity, node.pk)
                 ELSE NoPk]

\* the call config.qase.<entity>s.<op>(...) for node i, answered with resp
CallFor(tree, service, i, op, resp) ==
    LET node == tree.nodes[i]
    IN  [op |-> op, entity |-> node.entity, node |-> i,
         pk |-> IF op = "create" THEN NoPk ELSE node.pk,
         title |-> IF op = "delete" THEN <<>> ELSE node.name,
         parent_id |-> IF op = "delete" THEN NoPk ELSE tree.nodes[node.parent].pk,
         custom_field |-> IF op # "delete" /\ node.entity = "case"
                          THEN node.custom_field ELSE <<>>,
         resp |-> resp,
         ret |-> IF resp = "ok" THEN ServiceReturns(service, op, node.entity, node.pk)
                 ELSE NoPk]

\* node.pk or node.parent.pk is read of a node without that attribute
MissingPk(tree, i, op) ==
    LET node == tree.nodes[i]
    IN  \/ op # "create" /\ node.pk = NoPk
        \/ op # "delete" /\ (node.parent = NoNode \/ tree.nodes[node.parent].pk = NoPk)

OpOf(action) ==
    IF action = "Create" THEN "create"
    ELSE IF action = "Update" THEN "update" ELSE "delete"

\* Tree.perform_action_on_suite on node i, the service answering resp
perform_action_on_suite(tree, service, calls, i, resp) ==
    LET node == tree.nodes[i]
        op == OpOf(node.action)
        suite == CallFor(tree, service, i, op, resp)
        log == Append(calls, suite)
        deleted == delete_node(tree, i)
    IN  IF node.action \notin {"Create", "Update", "Delete"}
        THEN Outcome(tree, service, calls, "")
        ELSE IF MissingPk(tree, i, op)
        THEN Outcome(tree, service, calls, "AttributeError")
        ELSE IF resp = "error"
        THEN Outcome(tree, service, log, "BadRequestException")
        ELSE IF resp = "no_changes"
        THEN Outcome(tree, service, log, "no_changes")
        ELSE IF node.action = "Delete"
        THEN Outcome(deleted.tree, ServiceApply(service, suite), log, deleted.err)
        ELSE Outcome([tree EXCEPT !.nodes[i].pk = suite.ret],
                     ServiceApply(service, suite), log, "")

\* Tree.perform_action_on_case on node i, the service answering resp
perform_action_on_case(tree, service, calls, i, resp) ==
    LET node == tree.nodes[i]
        op == OpOf(node.action)
        case == CallFor(tree, service, i, op, resp)
        log == Append(calls, case)
        deleted == delete_node(tree, i)
    IN  IF node.action \notin {"Create", "Update", "Delete"}
        THEN Outcome(tree, service, calls, "")
        ELSE IF MissingPk(tree, i, op)
        THEN Outcome(tree, service, calls, "AttributeError")
        ELSE IF resp = "error"
        THEN Outcome(tree, service, log, "BadRequestException")
        ELSE IF resp = "no_changes"
        THEN Outcome(tree, service, log, "no_changes")
        ELSE IF node.action = "Delete"
        THEN Outcome(deleted.tree, ServiceApply(service, case), log, deleted.err)
        ELSE Outcome([tree EXCEPT !.nodes[i].pk = case.ret],
                     ServiceApply(service, case), log, "")

\* perform_action with the slip of swallowing every BadRequestException
perform_action_swallows_all(tree, service, calls, i, root_suite_id, dry, resp) ==
    LET node == tree.nodes[i]
        done == IF node.entity \in {"repository", "suite"} /\ node.filepath = <<>>
                THEN Outcome([tree EXCEPT !.nodes[i].pk = root_suite_id],
                             service, calls, "")
                ELSE IF node.entity = "suite"
                THEN perform_action_on_suite(tree, service, calls, i, resp)
                ELSE IF node.entity = "case"
                THEN perform_action_on_case(tree, service, calls, i, resp)
                ELSE Outcome(tree, service, calls, "")
    IN  IF dry THEN Outcome(tree, service, calls, "")
        ELSE IF done.err \in {"no_changes", "BadRequestException"}
        THEN [done EXCEPT !.err = ""]
        ELSE done

\* perform_action with the slip of not returning after the dry run's print
perform_action_without_return(tree, service, calls, i, root_suite_id, dry, resp) ==
    LET node == tree.nodes[i]
        done == IF node.entity \in {"repository", "suite"} /\ node.filepath = <<>>
                THEN Outcome([tree EXCEPT !.nodes[i].pk = root_suite_id],
                             service, calls, "")
                ELSE IF node.entity = "suite"
                THEN perform_action_on_suite(tree, service, calls, i, resp)
                ELSE IF node.entity = "case"
                THEN perform_action_on_case(tree, service, calls, i, resp)
                ELSE Outcome(tree, service, calls, "")
    IN  IF done.err = "no_changes" THEN [done EXCEPT !.err = ""]
        ELSE done

\* Tree.perform_action on node i: the dry run only prints; the no-op answer
\* 'There are no changes' is swallowed, every other exception leaves
perform_action(tree, service, calls, i, root_suite_id, dry, resp) ==
    LET node == tree.nodes[i]
        done == IF node.entity \in {"repository", "suite"} /\ node.filepath = <<>>
                THEN Outcome([tree EXCEPT !.nodes[i].pk = root_suite_id],
                             service, calls, "")
                ELSE IF node.entity = "suite"
                THEN perform_action_on_suite(tree, service, calls, i, resp)
                ELSE IF node.entity = "case"
                THEN perform_action_on_case(tree, service, calls, i, resp)
                ELSE Outcome(tree, service, calls, "")
    IN  IF dry THEN Outcome(tree, service, calls, "")
        ELSE IF done.err = "no_changes" THEN [done EXCEPT !.err = ""]
        ELSE done

\* the nodes of the first loop of Tree.push in the order it acts on them:
\* the pre-order of the tree, a node without Create or Update passed over
create_update_order(tree) ==
    SelectSeq(PreOrder(tree.nodes, 1),
              LAMBDA i : tree.nodes[i].action \in {"Create", "Update"})

RECURSIVE Flatten(_)
Flatten(ss) == IF ss = <<>> THEN <<>> ELSE Head(ss) \o Flatten(Tail(ss))

Reverse(s) == [i \in 1..Len(s) |-> s[Len(s) + 1 - i]]

\* delete_order with the slip of not reversing the levels
delete_order_top_down(tree) ==
    SelectSeq(Flatten(group_nodes_by_level(tree.nodes, 1)),
              LAMBDA i : tree.nodes[i].action = "Delete")

\* the nodes of the second loop of Tree.push in the order it acts on them:
\* the levels from the deepest to the shallowest, each in its own order
delete_order(tree) ==
    SelectSeq(Flatten(Reverse(group_nodes_by_level(tree.nodes, 1))),
              LAMBDA i : tree.nodes[i].action = "Delete")

(* ------------------------------ the state ----------------------------- *)
VARIABLES
    files,      \* the feature files on disk: [path, scenarios], in scan order
    service,    \* the remote project: suites and cases by identifier
    pc,         \* where the run is: "world" (before it starts), "diffed",
                \* "create_update", "delete", "done", "raised", "rediffed"
    local,      \* build_local_case_tree(args.path)
    remote,     \* build_remote_case_tree(args.root_suite_id)
    merged,     \* diff_trees(local, remote), then pushed
    dry_run,    \* args.dry_run
    todo,       \* the nodes the current loop of Tree.push still acts on
    calls,      \* the calls issued to the write service, in order
    err,        \* the exception that left Tree.push, "" when none did
    before,     \* the merged tree as Tree.push received it
    raw_title,  \* a scenario name as written in the feature file
    symbols,    \* the quote symbols strip_title is called with
    stripped,   \* what strip_title made of raw_title
    listed,     \* the suites in the order the service listed them
    root_id     \* the root_suite_id build_remote_case_tree was called with

vars == <<files, service, pc, local, remote, merged, dry_run, todo, calls, err, before,
          raw_title, symbols, stripped, listed, root_id>>

\* what a run of the push command leaves alone
aside == <<raw_title, symbols, stripped, listed, root_id>>

RemoteCount == Cardinality(DOMAIN service.suites) - 1 + Cardinality(DOMAIN service.cases)

Faults == Cardinality({j \in 1..Len(calls) : calls[j].resp # "ok"})

Init ==
    /\ files = <<>>
    /\ service = [suites |-> (RootSuiteId :> [title |-> <<"root">>, parent_id |-> NoPk]),
                  cases |-> <<>>,
                  next_suite |-> RootSuiteId + 1,
                  next_case |-> 1]
    /\ pc = "world"
    /\ local = NoTree
    /\ remote = NoTree
    /\ merged = NoTree
    /\ dry_run = FALSE
    /\ todo = <<>>
    /\ calls = <<>>
    /\ err = ""
    /\ before = NoTree
    /\ raw_title = <<>>
    /\ symbols = <<>>
    /\ stripped = <<>>
    /\ listed = <<>>
    /\ root_id = RootSuiteId

\* a feature file with its scenarios is on disk when the run starts
AddFeatureFile(path, scenarios) ==
    /\ pc = "world"
    /\ Len(files) < MaxFiles
    /\ RemoteCount = 0
    /\ \A j \in 1..Len(files) : files[j].path # path
    /\ files' = Append(files, [path |-> path, scenarios |-> scenarios])
    /\ UNCHANGED <<service, pc, local, remote, merged, dry_run, todo, calls, err, before>>
    /\ UNCHANGED aside

\* the remote project holds a suite when the run starts
RemoteHasSuite(title, parent_id) ==
    /\ pc = "world"
    /\ RemoteCount < MaxRemote
    /\ parent_id \in DOMAIN service.suites
    /\ service' = [service EXCEPT
           !.suites = (service.next_suite :>
                          [title |-> title, parent_id |-> parent_id]) @@ @,
           !.next_suite = @ + 1]
    /\ UNCHANGED <<files, pc, local, remote, merged, dry_run, todo, calls, err, before>>
    /\ UNCHANGED aside

\* the remote project holds a case when the run starts
RemoteHasCase(title, suite_id, custom_fields) ==
    /\ pc = "world"
    /\ RemoteCount < MaxRemote
    /\ suite_id \in DOMAIN service.suites
    /\ service' = [service EXCEPT
           !.cases = (service.next_case :>
                         [title |-> title, suite_id |-> suite_id,
                          custom_fields |-> custom_fields]) @@ @,
           !.next_case = @ + 1]
    /\ UNCHANGED <<files, pc, local, remote, merged, dry_run, todo, calls, err, before>>
    /\ UNCHANGED aside

\* push(args) up to the merged tree: both trees are built and diffed
Diff ==
    /\ pc = "world"
    /\ LET l == build_local_case_tree(files)
           r == build_remote_case_tree(service, RootSuiteId)
       IN  /\ local' = l
           /\ remote' = r
           /\ merged' = diff_trees(l, r)
    /\ pc' = "diffed"
    /\ UNCHANGED <<files, service, dry_run, todo, calls, err, before>>
    /\ UNCHANGED aside

\* where Tree.push stands once the loop it is in has rest left to act on
Continue(at, rest, tree) ==
    IF rest # <<>> THEN [pc |-> at, todo |-> rest]
    ELSE IF at = "create_update" /\ delete_order(tree) # <<>>
    THEN [pc |-> "delete", todo |-> delete_order(tree)]
    ELSE [pc |-> "done", todo |-> <<>>]

\* tree_merged.push(root_suite_id, dry_run) is entered
PushStart(dry) ==
    /\ pc = "diffed"
    /\ dry_run' = dry
    /\ before' = merged
    /\ LET next == Continue("create_update", create_update_order(merged), merged)
       IN  pc' = next.pc /\ todo' = next.todo
    /\ UNCHANGED <<files, service, local, remote, merged, calls, err>>
    /\ UNCHANGED aside

\* one perform_action of Tree.push, on the next node of the current loop
PushStep(resp) ==
    /\ pc \in {"create_update", "delete"}
    /\ resp # "ok" => Faults < MaxFaults
    /\ LET out == perform_action(merged, service, calls, Head(todo),
                                 RootSuiteId, dry_run, resp)
           next == Continue(pc, Tail(todo), out.tree)
       IN  /\ merged' = out.tree
           /\ service' = out.service
           /\ calls' = out.calls
           /\ err' = out.err
           /\ IF out.err # "" THEN pc' = "raised" /\ todo' = todo
              ELSE pc' = next.pc /\ todo' = next.todo
    /\ UNCHANGED <<files, local, remote, dry_run, before>>
    /\ UNCHANGED aside

\* the command is run again on the same files: the remote tree is rebuilt
\* from the service and the local tree diffed against it
Rediff ==
    /\ pc = "done"
    /\ LET r == build_remote_case_tree(service, RootSuiteId)
       IN  /\ remote' = r
           /\ merged' = diff_trees(local, r)
    /\ pc' = "rediffed"
    /\ UNCHANGED <<files, service, local, dry_run, todo, calls, err, before>>
    /\ UNCHANGED aside

Next ==
    \/ \E path \in FeaturePaths, scenarios \in ScenarioLists :
           AddFeatureFile(path, scenarios)
    \/ \E title \in SuiteTitles, parent_id \in DOMAIN service.suites :
           RemoteHasSuite(title, parent_id)
    \/ \E title \in CaseTitles, suite_id \in DOMAIN service.suites,
          custom_fields \in CustomFieldLists :
           RemoteHasCase(title, suite_id, custom_fields)
    \/ Diff
    \/ \E dry \in BOOLEAN : PushStart(dry)
    \/ \E resp \in Answers : PushStep(resp)
    \/ Rediff

Spec == Init /\ [][Next]_vars

\* the push command on a remote project that holds a suite whose title ends
\* in '.feature'
NextSuffix ==
    \/ \E path \in FeaturePaths, scenarios \in ScenarioLists :
           AddFeatureFile(path, scenarios)
    \/ \E title \in SuffixTitles, parent_id \in DOMAIN service.suites :
           RemoteHasSuite(title, parent_id)
    \/ \E title \in CaseTitles, suite_id \in DOMAIN service.suites,
          custom_fields \in CustomFieldLists :
           RemoteHasCase(title, suite_id, custom_fields)
    \/ Diff
    \/ \E dry \in BOOLEAN : PushStart(dry)
    \/ \E resp \in Answers : PushStep(resp)
    \/ Rediff

SpecSuffix == Init /\ [][NextSuffix]_vars

(* ------------------- strip_title on its own ---------------------------- *)
\* the longest scenario name
MaxTitleLen == 5

\* the scenario names: LocalCaseNode refuses an empty one
Titles == UNION {[1..n -> Chars] : n \in 1..MaxTitleLen}

\* the symbols strip_title is called with: "'\"" in LocalCaseNode, and each
\* symbol alone
SymbolLists == { <<"'", "\"">>, <<"'">>, <<"\"">> }

\* what a call of strip_title leaves alone
push_state == <<files, service, local, remote, merged, dry_run, todo, calls, err,
                before, listed, root_id>>

InitTitle ==
    /\ raw_title \in Titles
    /\ pc = "title"
    /\ symbols = <<>>
    /\ stripped = <<>>
    /\ files = <<>>
    /\ service = [suites |-> <<>>, cases |-> <<>>, next_suite |-> 1, next_case |-> 1]
    /\ local = NoTree
    /\ remote = NoTree
    /\ merged = NoTree
    /\ dry_run = FALSE
    /\ todo = <<>>
    /\ calls = <<>>
    /\ err = ""
    /\ before = NoTree
    /\ listed = <<>>
    /\ root_id = NoPk

\* self.name = strip_title(name, symbols)
Normalize(syms) ==
    /\ pc = "title"
    /\ pc' = "stripped"
    /\ symbols' = syms
    /\ stripped' = strip_title(raw_title, syms)
    /\ UNCHANGED <<raw_title, push_state>>

NextTitle == \E syms \in SymbolLists : Normalize(syms)

SpecTitle == InitTitle /\ [][NextTitle]_vars

(* ---------------- build_remote_case_tree on its own -------------------- *)
RECURSIVE Orders(_)
\* the sequences that hold each element of a set once
Orders(set) ==
    IF set = {} THEN {<<>>}
    ELSE UNION {{<<x>> \o rest : rest \in Orders(set \ {x})} : x \in set}

\* build_remote_case_tree(root): the service lists its suites in some order
Fetch(order, root) ==
    /\ pc = "world"
    /\ pc' = "fetched"
    /\ listed' = order
    /\ root_id' = root
    /\ remote' = build_remote_case_tree_listed(order, service, root)
    /\ UNCHANGED <<files, service, local, merged, dry_run, todo, calls, err, before,
                   raw_title, symbols, stripped>>

NextFetch ==
    \/ \E title \in SuiteTitles, parent_id \in DOMAIN service.suites :
           RemoteHasSuite(title, parent_id)
    \/ \E title \in CaseTitles, suite_id \in DOMAIN service.suites,
          custom_fields \in CustomFieldLists :
           RemoteHasCase(title, suite_id, custom_fields)
    \/ \E order \in Orders(Range(SuiteListing(service))),
          root \in DOMAIN service.suites :
           Fetch(order, root)

SpecFetch == Init /\ [][NextFetch]_vars

(* ------------------------- reading the trees -------------------------- *)
\* the nodes of a tree reachable from its root
Reachable(tree) == Range(PreOrder(tree.nodes, 1))

\* the nodes below node p
Descendants(tree, p) == Range(PreOrder(tree.nodes, p)) \ {p}

Pushing == pc \in {"create_update", "delete", "done", "raised"}

(* ------------------------------- claims ------------------------------- *)

\* C1: in a push that is no dry run, whenever a create call is issued for a
\* node whose parent has action Create too, a create call for the parent was
\* issued earlier, it returned an identifier, and the child's call carries
\* that identifier as its parent identifier.
C1_ParentCreatedBeforeChild ==
    \A j \in 1..Len(calls) :
        LET c == calls[j]
            p == before.nodes[c.node].parent
        IN  (c.op = "create" /\ p # NoNode /\ before.nodes[p].action = "Create")
            => \E i \in 1..(j - 1) :
                   /\ calls[i].node = p
                   /\ calls[i].op = "create"
                   /\ calls[i].resp = "ok"
                   /\ calls[i].ret = c.parent_id

\* a create call was issued for a child of a created suite
C1_Witness ==
    \E j \in 1..Len(calls) :
        /\ calls[j].op = "create"
        /\ before.nodes[calls[j].node].parent # NoNode
        /\ before.nodes[before.nodes[calls[j].node].parent].action = "Create"
        /\ ~dry_run

\* C2: whenever a delete call is issued for a node P, a delete call was
\* issued earlier for every node below P (in the tree as push received it)
\* that has action Delete.
C2_ChildDeletedBeforeParent ==
    \A j \in 1..Len(calls) :
        calls[j].op = "delete"
        => \A c \in Descendants(before, calls[j].node) :
               before.nodes[c].action = "Delete"
               => \E i \in 1..(j - 1) :
                      calls[i].node = c /\ calls[i].op = "delete"

\* a delete call was issued for a node above another node with action Delete
C2_Witness ==
    \E j \in 1..Len(calls) :
        /\ calls[j].op = "delete"
        /\ \E c \in Descendants(before, calls[j].node) :
               before.nodes[c].action = "Delete"

\* C3: after diff_trees every node of the copy of the local tree whose key
\* the remote tree holds has the remote node's identifier and custom fields
\* and action Update (None for the root), and every other node has action
\* Create and the default custom fields.
C3_LocalNodesClassified ==
    pc = "diffed" =>
        \A i \in 1..Len(local.nodes) :
            LET key == local.nodes[i].key
                m == merged.nodes[i]
                r == remote.nodes[remote.key_map[key]]
            IN  IF key \in DOMAIN remote.key_map
                THEN /\ m.pk = r.pk
                     /\ m.custom_fields = r.custom_fields
                     /\ m.custom_field = r.custom_field
                     /\ m.action = IF i = 1 THEN "None" ELSE "Update"
                ELSE /\ m.action = "Create"
                     /\ m.custom_field = QASE_CUSTOM_FIELD_DEFAULTS

\* C4: after diff_trees every remote node whose key the local tree lacks has
\* exactly one copy in the merged tree, with action Delete and the remote
\* identifier, whose children are such copies too and whose parent is the
\* merged node with the key of the remote parent.
C4_RemoteOnlyNodesDeleted ==
    pc = "diffed" =>
        \A r \in Reachable(remote) :
            remote.nodes[r].key \notin DOMAIN local.key_map
            => LET copies == {m \in Reachable(merged) :
                                 /\ merged.nodes[m].cls = "remote"
                                 /\ merged.nodes[m].entity = remote.nodes[r].entity
                                 /\ merged.nodes[m].pk = remote.nodes[r].pk}
               IN  /\ Cardinality(copies) = 1
                   /\ \A m \in copies :
                          /\ merged.nodes[m].action = "Delete"
                          /\ merged.nodes[m].key = remote.nodes[r].key
                          /\ merged.nodes[m].parent # NoNode
                          /\ merged.nodes[merged.nodes[m].parent].key
                                 = remote.nodes[remote.nodes[r].parent].key
                          /\ \A c \in Range(merged.nodes[m].children) :
                                 /\ merged.nodes[c].action = "Delete"
                                 /\ merged.nodes[c].parent = m

\* C5: every operation of flat_diff_trees names a key that a node of the
\* merged tree of diff_trees has with the same action and, for Update and
\* Delete, with the same remote identifier.
C5_FlatDiffAgrees ==
    pc = "diffed" =>
        \A o \in flat_diff_trees(local, remote) :
            \E m \in Reachable(merged) :
                /\ merged.nodes[m].key = o.key
                /\ merged.nodes[m].action = o.action
                /\ o.action \in {"Update", "Delete"} => merged.nodes[m].pk = o.pk

\* every node but the root has action Update
AllUpdate(tree) ==
    /\ Len(tree.nodes) > 1
    /\ \A i \in 2..Len(tree.nodes) : tree.nodes[i].action = "Update"

\* C6: after a push that is no dry run of a merged tree whose nodes but the
\* root all have action Update, every call answered with success, the diff
\* of the same local tree against the rebuilt remote tree has no node with
\* action Create or Delete.
C6_Idempotent ==
    (/\ pc = "rediffed"
     /\ ~dry_run
     /\ AllUpdate(before)
     /\ \A j \in 1..Len(calls) : calls[j].resp = "ok")
    => \A m \in Reachable(merged) :
           merged.nodes[m].action \notin {"Create", "Delete"}

\* C7: after diff_trees the root has action None and every other node
\* reachable from the root has action Create, Update or Delete.
C7_OnlyRootHasNone ==
    pc = "diffed" =>
        /\ merged.nodes[1].action = "None"
        /\ \A m \in Reachable(merged) \ {1} :
               merged.nodes[m].action \in {"Create", "Update", "Delete"}

RECURSIVE SameTree(_, _, _, _)
\* the subtree of node i of tree s and that of node j of tree t have the
\* same keys in the same places
SameTree(s, i, t, j) ==
    /\ s.nodes[i].key = t.nodes[j].key
    /\ Len(s.nodes[i].children) = Len(t.nodes[j].children)
    /\ \A k \in 1..Len(s.nodes[i].children) :
           SameTree(s, s.nodes[i].children[k], t, t.nodes[j].children[k])

\* C8: when the local and the remote tree have the same structure and keys,
\* diff_trees gives every node but the root action Update, the root None,
\* and the merged tree has exactly the nodes of the local tree.
C8_IdenticalTreesAllUpdate ==
    (pc = "diffed" /\ SameTree(local, 1, remote, 1)) =>
        /\ merged.nodes[1].action = "None"
        /\ \A m \in Reachable(merged) \ {1} : merged.nodes[m].action = "Update"
        /\ Len(merged.nodes) = Len(local.nodes)

\* C9: a dry run of push issues no call to the service, raises nothing and
\* leaves the merged tree as it received it: nodes, links and both indices.
C9_DryRunChangesNothing ==
    (Pushing /\ dry_run) =>
        /\ calls = <<>>
        /\ merged = before
        /\ err = ""

\* a dry run went through a tree with a node to create, update or delete
C9_Witness ==
    /\ pc = "done"
    /\ dry_run
    /\ \E i \in 1..Len(before.nodes) : before.nodes[i].action = "Create"
    /\ \E i \in 1..Len(before.nodes) : before.nodes[i].action = "Update"
    /\ \E i \in 1..Len(before.nodes) : before.nodes[i].action = "Delete"

\* C10: a call answered with 'There are no changes' makes push raise
\* nothing, neither at once nor at a node below the one the call was for,
\* and a push whose calls were all answered with success or that answer
\* issues, when it returns, one call per node with an action, in the order
\* of the two loops.
C10_NoOpRecovered ==
    /\ \A j \in 1..Len(calls) :
           calls[j].resp = "no_changes"
           => ~(/\ pc = "raised"
                /\ before.nodes[Head(todo)].parent = calls[j].node)
    /\ (pc = "done" /\ ~dry_run)
       => [j \in 1..Len(calls) |-> calls[j].node]
              = create_update_order(before) \o delete_order(before)

\* C11: a call answered with a failure other than the no-op is the last call
\* of the push: the exception has left push at the node the call was for, and
\* what the earlier successful calls did is still there: the identifier a
\* create or update stored on its node and the entity in the remote project,
\* the removal of a deleted node from the indices, from its parent and from
\* the remote project.
C11_FailureHaltsWithoutRollback ==
    \A j \in 1..Len(calls) :
        calls[j].resp = "error"
        => /\ j = Len(calls)
           /\ pc = "raised"
           /\ err = "BadRequestException"
           /\ Head(todo) = calls[j].node
           /\ \A i \in 1..(j - 1) :
                  LET c == calls[i]
                      node == merged.nodes[c.node]
                      held == IF c.entity = "suite" THEN DOMAIN service.suites
                              ELSE DOMAIN service.cases
                  IN  c.resp = "ok"
                      => IF c.op = "delete"
                         THEN /\ c.pk \notin held
                              /\ node.parent = NoNode
                              /\ \A k \in DOMAIN merged.key_map :
                                     merged.key_map[k] # c.node
                              /\ \A k \in DOMAIN merged.id_map :
                                     merged.id_map[k] # c.node
                         ELSE /\ node.pk = c.ret
                              /\ c.ret \in held

\* a call failed after a create and a delete call had succeeded
C11_Witness ==
    /\ Len(calls) >= 3
    /\ calls[Len(calls)].resp = "error"
    /\ \E i \in 1..(Len(calls) - 1) : calls[i].resp = "ok" /\ calls[i].op = "create"
    /\ \E i \in 1..(Len(calls) - 1) : calls[i].resp = "ok" /\ calls[i].op = "delete"

\* C12: no call of a push is for the root node; while push runs the root
\* holds the identifier root_suite_id, and every create or update call for a
\* direct child of the root carries root_suite_id as its parent identifier
\* (a delete call carries no parent identifier).
C12_RootSpecialCase ==
    /\ \A j \in 1..Len(calls) : calls[j].node # 1
    /\ Pushing => merged.nodes[1].pk = RootSuiteId
    /\ \A j \in 1..Len(calls) :
           (calls[j].op # "delete" /\ before.nodes[calls[j].node].parent = 1)
           => calls[j].parent_id = RootSuiteId

\* C13: in a push that is no dry run and whose calls all succeed, a node with
\* action Delete gets at most one delete call, a node whose delete call was
\* issued is out of both indices and detached from its parent, and when push
\* has returned every Delete node got its call and none is left in the tree.
C13_DeletePassRemovesNodes ==
    (~dry_run /\ Pushing /\ \A j \in 1..Len(calls) : calls[j].resp = "ok")
    => /\ err # "KeyError"
       /\ \A i \in 1..Len(before.nodes) :
              before.nodes[i].action = "Delete"
              => /\ Cardinality({j \in 1..Len(calls) : calls[j].node = i}) <= 1
                 /\ pc = "done" => \E j \in 1..Len(calls) :
                                       calls[j].node = i /\ calls[j].op = "delete"
       /\ \A j \in 1..Len(calls) :
              calls[j].op = "delete"
              => /\ merged.nodes[calls[j].node].parent = NoNode
                 /\ \A k \in DOMAIN merged.key_map : merged.key_map[k] # calls[j].node
                 /\ \A k \in DOMAIN merged.id_map : merged.id_map[k] # calls[j].node
       /\ pc = "done"
          => \A m \in Reachable(merged) : merged.nodes[m].action # "Delete"

\* some token of some segment of the path is '.feature'
HasFeatureSuffix(path) ==
    \E i \in 1..Len(path) : \E t \in 1..Len(path[i]) : path[i][t] = ".feature"

\* the nodes of a tree keep the keys they had in the tree it came from
SameKeys(tree, from) ==
    \A i \in 1..Len(from.nodes) :
        i <= Len(tree.nodes) /\ tree.nodes[i].key = from.nodes[i].key

\* every entry of the key index maps a key to a node that has this key
KeyIndexSound(tree) ==
    \A k \in DOMAIN tree.key_map : tree.nodes[tree.key_map[k]].key = k

\* C14, as stated: in the local, the remote and the merged tree, at any point,
\* every node's key is its own stored path with '.feature' stripped, plus
\* '::<name>' for a case; no operation changes a key; the key index is sound.
C14_KeyStability_AsStated ==
    \A tree \in {local, remote, merged} :
        /\ \A i \in 1..Len(tree.nodes) :
               tree.nodes[i].key = KeyOf(StripFeature(tree.nodes[i].filepath),
                                         tree.nodes[i].entity, tree.nodes[i].name)
        /\ KeyIndexSound(tree)

\* C14, amended: the key of a node built from files is its stored path with
\* '.feature' stripped, the key of a node built from the remote project (in
\* the remote tree, or copied into the merged tree as Delete) is its stored
\* synthetic path as it is, each plus '::<name>' for a case; the merged tree
\* keeps the keys of the local tree, push keeps the keys of the tree it
\* received; the key index is sound.
C14_KeyStability ==
    /\ \A tree \in {local, remote, merged} :
           /\ \A i \in 1..Len(tree.nodes) :
                  LET node == tree.nodes[i]
                  IN  node.key = KeyOf(IF node.cls = "local"
                                       THEN StripFeature(node.filepath)
                                       ELSE node.filepath,
                                       node.entity, node.name)
           /\ KeyIndexSound(tree)
    /\ pc # "world" => SameKeys(merged, local)
    /\ Pushing => SameKeys(merged, before)
    /\ pc = "diffed"
       => \A m \in 1..Len(merged.nodes) :
              merged.nodes[m].action = "Delete"
              => \E r \in 1..Len(remote.nodes) :
                     /\ remote.nodes[r].pk = merged.nodes[m].pk
                     /\ remote.nodes[r].entity = merged.nodes[m].entity
                     /\ remote.nodes[r].key = merged.nodes[m].key

\* a push that assigned an identifier and removed a node has returned, the
\* remote tree holding a suite whose title has the suffix '.feature'
C14_Witness ==
    /\ pc = "done"
    /\ \E j \in 1..Len(calls) : calls[j].op = "create" /\ calls[j].resp = "ok"
    /\ \E j \in 1..Len(calls) : calls[j].op = "delete" /\ calls[j].resp = "ok"
    /\ \E r \in 1..Len(remote.nodes) : HasFeatureSuffix(remote.nodes[r].filepath)

\* the quote symbols LocalCaseNode strips
Quotes == {"'", "\""}

\* C15: strip_title(s, "'\"") of a title in which a quote symbol occurs an
\* even number of times, is the first and the last character and borders no
\* <variable> reference at either end is the title without these two
\* characters, blanks collapsed and trimmed; a title that neither starts nor
\* ends with a quote symbol comes back with only its blanks collapsed.
C15_BalancedBordersStripped ==
    (pc = "stripped" /\ symbols = <<"'", "\"">>)
    => /\ \A q \in Quotes :
              (/\ is_balanced(raw_title, q)
               /\ raw_title[1] = q
               /\ raw_title[Len(raw_title)] = q
               /\ raw_title[2] # "<"
               /\ raw_title[Len(raw_title) - 1] # ">")
              => stripped = collapse(Slice(raw_title, 1, Len(raw_title) - 1))
       /\ (raw_title[1] \notin Quotes /\ raw_title[Len(raw_title)] \notin Quotes)
          => stripped = collapse(raw_title)

\* C16: stripping for one symbol leaves a title as it is, blanks collapsed,
\* when the first occurrence of the symbol opens a 'symbol<' reference and
\* the last one closes a '>symbol' reference, however often the symbol occurs.
C16_BorderVariablesKept ==
    (pc = "stripped" /\ Len(symbols) = 1)
    => LET q == symbols[1]
           first == Find(raw_title, <<q>>, 0)
           last == RFind(raw_title, <<q>>, 0, Len(raw_title))
           closing == RFind(raw_title, <<">", q>>, 0, Len(raw_title))
       IN  (/\ first # -1
            /\ first = Find(raw_title, <<q, "<">>, 0)
            /\ closing # -1
            /\ last = closing + 1)
           => stripped = collapse(raw_title)

\* C17: the path made of the names that push sends as titles for the suites
\* from below the root down to a local node gives, as a remote node's
\* synthetic path, the key of the local node.
RECURSIVE TitlesAlong(_, _)
TitlesAlong(tree, i) ==
    LET node == tree.nodes[i]
    IN  IF node.parent = NoNode THEN <<>>
        ELSE IF node.entity = "case" THEN TitlesAlong(tree, node.parent)
        ELSE Append(TitlesAlong(tree, node.parent), node.name)

C17_LocalAndRemoteKeysAgree ==
    pc = "diffed"
    => \A i \in 1..Len(local.nodes) :
           RemoteCaseNode_set_key(TitlesAlong(local, i), local.nodes[i].entity,
                                  local.nodes[i].name)
               = local.nodes[i].key

\* C18: when strip_title returns, the characters of its result that are
\* neither one of the symbols nor a blank are those of the title, in order,
\* and of each symbol at most two occurrences are gone.
C18_OnlyQuotesAndBlanksRemoved ==
    (pc = "stripped" /\ stripped # IndexError)
    => /\ SelectSeq(stripped, LAMBDA c : c \notin Range(symbols) /\ c # " ")
              = SelectSeq(raw_title, LAMBDA c : c \notin Range(symbols) /\ c # " ")
       /\ \A q \in Range(symbols) :
              Count(raw_title, q) - Count(stripped, q) \in 0..2

\* every proper prefix of the path of a local node is the path of a suite
WellFormed(tree) ==
    \A i \in 1..Len(tree.nodes) :
        \A n \in 1..(Len(tree.nodes[i].filepath) - 1) :
            \E j \in 1..Len(tree.nodes) :
                /\ tree.nodes[j].entity = "suite"
                /\ tree.nodes[j].filepath = SubSeq(tree.nodes[i].filepath, 1, n)

\* C19: in the merged tree of a well-formed local tree every node below a
\* node with action Delete has action Delete and every node below a node
\* with action Create has action Create.
C19_ActionsCloseDownwards ==
    (pc = "diffed" /\ WellFormed(local))
    => \A m \in Reachable(merged) :
           merged.nodes[m].action \in {"Create", "Delete"}
           => \A c \in Descendants(merged, m) :
                  merged.nodes[c].action = merged.nodes[m].action

RECURSIVE UnderRoot(_, _, _)
\* suite id is root or lies below it in the remote project
UnderRoot(project, id, root) ==
    \/ id = root
    \/ /\ id \in DOMAIN project.suites
       /\ project.suites[id].parent_id # NoPk
       /\ UnderRoot(project, project.suites[id].parent_id, root)

\* C20: whatever the order of the listing, the tree of
\* build_remote_case_tree(root_suite_id) has the suite root_suite_id as its
\* root, one node for each suite below it and for each of their cases and
\* no other node, each under the node of its parent suite, and a key index
\* with one entry per node, the root under '.'.
C20_RemoteSnapshotComplete ==
    pc = "fetched"
    => /\ remote # NoTree
       /\ remote.nodes[1].pk = root_id
       /\ remote.nodes[1].parent = NoNode
       /\ LET wanted == {id \in DOMAIN service.suites : UnderRoot(service, id, root_id)}
              nodes == Reachable(remote)
              suites == {i \in nodes : remote.nodes[i].entity = "suite"}
              cases == {i \in nodes : remote.nodes[i].entity = "case"}
          IN  /\ Cardinality(nodes) = Len(remote.nodes)
              /\ \A id \in wanted :
                     Cardinality({i \in suites : remote.nodes[i].pk = id}) = 1
              /\ \A i \in suites \ {1} :
                     /\ remote.nodes[i].pk \in wanted
                     /\ remote.nodes[i].parent # NoNode
                     /\ remote.nodes[remote.nodes[i].parent].pk
                            = service.suites[remote.nodes[i].pk].parent_id
              /\ \A c \in DOMAIN service.cases :
                     service.cases[c].suite_id \in wanted
                     => Cardinality({i \in cases : remote.nodes[i].pk = c}) = 1
              /\ \A i \in cases :
                     /\ remote.nodes[i].pk \in DOMAIN service.cases
                     /\ remote.nodes[i].parent # NoNode
                     /\ remote.nodes[remote.nodes[i].parent].pk
                            = service.cases[remote.nodes[i].pk].suite_id
              /\ Cardinality(DOMAIN remote.key_map) = Len(remote.nodes)
              /\ KeyIndexSound(remote)
              /\ get_node_by_key(remote, PathAsKey(<<>>)) = 1

\* C21: flat_diff_trees names every node of the local tree but the root in
\* exactly one operation, an Update when the node's key is in the remote tree
\* and a Create when it is not; it names every node of the remote tree but
\* the root whose key the local tree lacks in exactly one Delete; and its
\* (key, action) pairs are those of the nodes but the root of the merged tree
\* of diff_trees.
C21_FlatDiffSkipsOnlyRoot ==
    pc = "diffed" =>
        LET operations == flat_diff_trees(local, remote)
        IN  /\ \A i \in Reachable(local) \ {1} :
                   LET named == {o \in operations :
                                    o.action \in {"Update", "Create"} /\ o.node = i}
                   IN  /\ Cardinality(named) = 1
                       /\ \A o \in named :
                              o.action = "Update"
                              <=> local.nodes[i].key \in DOMAIN remote.key_map
            /\ \A r \in Reachable(remote) \ {1} :
                   remote.nodes[r].key \notin DOMAIN local.key_map
                   => Cardinality({o \in operations :
                                      o.action = "Delete" /\ o.node = r}) = 1
            /\ {<<o.key, o.action>> : o \in operations}
                   = {<<merged.nodes[m].key, merged.nodes[m].action>> :
                         m \in Reachable(merged) \ {1}}

====
